---- MODULE Spec2Model ----
(***************************************************************************)
(* cursorup: fetch release metadata, download the AppImage into a scratch  *)
(* directory, extract it, back up the previous installation, install the   *)
(* new artifact and icon, write the launcher descriptor (src/src/lib.rs),  *)
(* and exit with 0 or 1 (src/src/main.rs).                                 *)
(*                                                                         *)
(* Strings are sequences of fragments; "." and "/" are the only fragments  *)
(* with structure (extension and path separators).  The file system is     *)
(* three directories: the scratch directory, the install directory         *)
(* <home>/Applications/cursor with its back/ subdirectory, and the         *)
(* launcher directory <home>/.local/share/applications.                    *)
(***************************************************************************)
EXTENDS Naturals, Integers, Sequences, FiniteSets, TLC

\* ------------------------------------------------------------------ bounds
MaxRuns == 2
MaxTotal == 1
MaxChunkLen == 1
MaxChunks == 2

\* ----------------------------------------------------------------- strings
Prefix == <<"https:", "/", "/", "downloads", "/">>
App1 == <<"cursor-1", ".", "2", ".", "3", ".", "AppImage">>
App2 == <<"cursor-1", ".", "2", ".", "4", ".", "AppImage">>
NoExt == <<"cursor-latest">>
CodePng == <<"code", ".", "png">>
BackName == <<"back">>
Notes == <<"notes", ".", "txt">>
DotPng == <<".", "png">>

\* download_url values the metadata endpoint may return
Urls ==
    { Prefix \o App1, Prefix \o App2, Prefix \o NoExt, Prefix \o BackName, Prefix }

\* names a direct entry of the install directory may have
FileNames == {App1, App2, NoExt, CodePng, BackName, Notes, DotPng}

RECURSIVE LastSlash(_, _)
\* index of the last "/" of s at or before i, 0 when there is none
LastSlash(s, i) ==
    IF i = 0 THEN 0
    ELSE IF s[i] = "/" THEN i
    ELSE LastSlash(s, i - 1)

\* download_url.split('/').last(): what follows the last '/'
file_name_of_url(u) == SubSeq(u, LastSlash(u, Len(u)) + 1, Len(u))

RECURSIVE LastDot(_, _)
LastDot(s, i) ==
    IF i = 0 THEN 0
    ELSE IF s[i] = "." THEN i
    ELSE LastDot(s, i - 1)

\* Path::extension as an Option: {} is None, {e} is Some(e).  None for "..",
\* for a name without a dot and for a name whose only dot is its first byte.
extension(n) ==
    IF n = <<".", ".">> THEN {}
    ELSE LET d == LastDot(n, Len(n))
         IN  IF d <= 1 THEN {} ELSE {SubSeq(n, d + 1, Len(n))}

\* extension == "AppImage" || extension == "png"
is_backup_extension_png_only(e) == e = <<"png">>
is_backup_extension(e) == e = <<"AppImage">> \/ e = <<"png">>

\* backup_file_name: file_name with ".bak" pushed
backup_file_name(n) == n \o <<".", "bak">>

BakNames == {backup_file_name(n) : n \in FileNames}

\* tmp_dir.path.join(file_name) names the directory itself or its parent
joins_to_directory(n) == n = <<>> \/ n = <<".">> \/ n = <<".", ".">>

\* paths under $HOME
dest_dir == <<"$HOME", "Applications", "cursor">>
scratch_dir == <<"$TMP", "cursorup_temp">>
icon_dest_path == Append(dest_dir, CodePng)
appimage_dest_path_scratch(n) == Append(scratch_dir, n)
appimage_dest_path(n) == Append(dest_dir, n)

\* String::from_utf8_lossy: an invalid byte becomes U+FFFD
lossy_byte(b) == IF b = "xFF" THEN "U+FFFD" ELSE b
from_utf8_lossy(bytes) == [i \in 1..Len(bytes) |-> lossy_byte(bytes[i])]

StderrTexts == { <<>>, <<"squashfs", "error">>, <<"bad", "xFF">> }
\* what the extraction subprocess may return: it is silent when it exits 0
Outputs ==
    {[status |-> 0, stderr |-> <<>>]}
        \cup {[status |-> 1, stderr |-> se] : se \in StderrTexts}
Statuses == {200, 404, 500}
DeclaredLens == (0..MaxTotal) \cup {1000}
ChunkLens == (0..MaxChunkLen) \cup {500, 1000}

\* StatusCode::is_success
is_success_any(s) == TRUE
is_success(s) == 200 <= s /\ s <= 299

\* ExitStatus::success
status_success_any(c) == TRUE
status_success(c) == c = 0

\* (downloaded as f64 / total_size as f64) * 100.0, as printed by {:.2}
percentage(d, t) ==
    IF t = 0
    THEN [class |-> IF d = 0 THEN "NaN" ELSE "inf", hundredths |-> 0]
    ELSE [class |-> "finite", hundredths |-> (d * 20000 + t) \div (2 * t)]

\* ------------------------------------------------------------ file entries
Absent == [kind |-> "absent"]
DirEnt == [kind |-> "dir"]
\* a regular file: who wrote it, in which run, and whether the write completed
File(role, gen, whole) == [kind |-> "file", role |-> role, gen |-> gen, whole |-> whole]

\* the `?` operator: an Err returns from run(), an Ok goes on
Try_ignoring(ok, next) == next
Try(ok, next) == IF ok THEN next ELSE "return"

PipelineSteps ==
    << "fetch", "mktmp", "download", "chmod", "extract", "home", "mkdest",
       "back_file", "copy_icon", "copy_appimage", "desktop" >>

NoErr == [step |-> "none", cause |-> "none", status |-> {}, msg |-> <<>>]
Err(step, cause) == [step |-> step, cause |-> cause, status |-> {}, msg |-> <<>>]

VARIABLES
    pc,          \* position of the one task
    run,         \* number of the current invocation of the program
    url,         \* metadata.download_url, {} before the fetch
    guard,       \* the TmpDir value exists in run()'s scope
    dropped,     \* TmpDir::drop has run in this invocation
    rmFailed,    \* remove_dir_all returned an error (swallowed)
    tmpExists,   \* <temp root>/cursorup_temp exists
    tmpFile,     \* the file download_file last created in it: {} or {[name, len, exec]}
    tmpIcon,     \* squashfs-root/code.png exists in it
    status,      \* response.status(), {} before a response
    total,       \* response.content_length(): {} is None
    downloaded,  \* running byte count
    nchunks,     \* chunks received
    reported,    \* last percentage printed, {} before the first
    output,      \* install's output: {} or {[status, stderr]} of the subprocess
    home_dir,    \* install's home_dir: {} before HOME is read, or when it is unset
    installExists, \* <home>/Applications/cursor exists
    dir,         \* its direct entries: name -> entry
    back,        \* entries of back/: name -> entry
    launcherDir, \* <home>/.local/share/applications exists
    desktop,     \* cursor.desktop: [kind, Exec, Icon]
    result,      \* "none" while running, then "ok" or "err"
    err,         \* the propagated error
    exitCode,    \* {} while running, {0} or {1} after exit
    trace,       \* pipeline steps started in this invocation, in order
    home0        \* the home tree when this invocation started

vars ==
    << pc, run, url, guard, dropped, rmFailed, tmpExists, tmpFile, tmpIcon,
       status, total, downloaded, nchunks, reported, output, home_dir,
       installExists, dir, back, launcherDir, desktop, result, err, exitCode,
       trace, home0 >>

tmpVars == <<tmpExists, tmpFile, tmpIcon>>
dlVars == <<status, total, downloaded, nchunks, reported>>
homeVars == <<installExists, dir, back, launcherDir, desktop>>
guardVars == <<guard, dropped, rmFailed>>

Home == [installExists |-> installExists, dir |-> dir, back |-> back, desktop |-> desktop]

NoDesktop == [kind |-> "absent", Exec |-> <<>>, Icon |-> <<>>]
EmptyDesktop == [kind |-> "empty", Exec |-> <<>>, Icon |-> <<>>]


\* the locals of one invocation, before run() starts
FreshLocals ==
    /\ pc = "start"
    /\ url = {}
    /\ guard = FALSE /\ dropped = FALSE /\ rmFailed = FALSE
    /\ status = {} /\ total = {} /\ downloaded = 0 /\ nchunks = 0 /\ reported = {}
    /\ output = {}
    /\ result = "none" /\ err = NoErr /\ exitCode = {}
    /\ trace = <<>>

\* a first invocation on a machine that never ran the program; the launcher
\* directory is the desktop environment's and may or may not exist
Init ==
    /\ FreshLocals
    /\ run = 1
    /\ home_dir = {}
    /\ tmpExists = FALSE /\ tmpFile = {} /\ tmpIcon = FALSE
    /\ installExists = FALSE
    /\ dir = [n \in FileNames |-> Absent]
    /\ back = [k \in BakNames |-> Absent]
    /\ launcherDir \in BOOLEAN
    /\ desktop = NoDesktop
    /\ home0 = [installExists |-> FALSE, dir |-> dir, back |-> back, desktop |-> NoDesktop]

\* what every `?` site does with the outcome of its step
Advance(step, ok, next, e) ==
    /\ pc' = Try(ok, next)
    /\ trace' = IF step = "" THEN trace ELSE Append(trace, step)
    /\ result' = IF ok THEN result ELSE "err"
    /\ err' = IF ok THEN err ELSE e
    /\ UNCHANGED <<run, exitCode, home0>>

\* fetch_metadata().await?
FetchMetadata ==
    /\ pc = "start"
    /\ \/ \E u \in Urls :
            /\ url' = {u}
            /\ Advance("fetch", TRUE, "mktmp", NoErr)
       \/ \E c \in {"network", "decode"} :
            /\ url' = url
            /\ Advance("fetch", FALSE, "mktmp", Err("fetch", c))
    /\ UNCHANGED <<guardVars, tmpVars, dlVars, output, home_dir, homeVars>>

\* TmpDir::default(); fs::create_dir_all(&tmp_dir.path).await?
CreateTmpDir ==
    /\ pc = "mktmp"
    /\ guard' = TRUE
    /\ \/ /\ tmpExists' = TRUE
          /\ Advance("mktmp", TRUE, "download", NoErr)
       \/ /\ tmpExists' = tmpExists
          /\ Advance("mktmp", FALSE, "download", Err("mktmp", "io"))
    /\ UNCHANGED <<url, dropped, rmFailed, tmpFile, tmpIcon, dlVars, output,
                   home_dir, homeVars>>

TheUrl == IF url = {} THEN <<>> ELSE CHOOSE u \in url : TRUE
file_name == file_name_of_url(TheUrl)
\* the entry at appimage_path = tmp_dir.path.join(file_name)
Dest == {f \in tmpFile : f.name = file_name}
DestLen == {f.len : f \in Dest}
DestExec == \E f \in Dest : f.exec

\* download_file up to File::create
DownloadStart ==
    /\ pc = "download"
    /\ \/ \* reqwest::get fails
          /\ Advance("download", FALSE, "chunks", Err("download", "io"))
          /\ UNCHANGED <<dlVars, tmpFile>>
       \/ \E s \in Statuses, cl \in {{}} \cup {{n} : n \in DeclaredLens} :
            /\ status' = {s}
            /\ total' = cl
            /\ UNCHANGED <<downloaded, nchunks, reported>>
            /\ IF ~is_success(s)
               THEN /\ Advance("download", FALSE, "chunks",
                               [Err("download", "status") EXCEPT !.status = {s}])
                    /\ tmpFile' = tmpFile
               ELSE IF cl = {}
               THEN /\ Advance("download", FALSE, "chunks", Err("download", "no_length"))
                    /\ tmpFile' = tmpFile
               ELSE IF joins_to_directory(file_name) \/ ~tmpExists
               THEN /\ Advance("download", FALSE, "chunks", Err("download", "is_dir"))
                    /\ tmpFile' = tmpFile
               ELSE \/ /\ Advance("download", TRUE, "chunks", NoErr)
                       /\ tmpFile' = {[name |-> file_name, len |-> 0, exec |-> DestExec]}
                    \/ /\ Advance("download", FALSE, "chunks", Err("download", "io"))
                       /\ tmpFile' = tmpFile
    /\ UNCHANGED <<url, guardVars, tmpExists, tmpIcon, output, home_dir, homeVars>>

TheTotal == IF total = {} THEN 0 ELSE CHOOSE n \in total : TRUE

\* one turn of `while let Some(chunk) = response.chunk().await?`.  The body of a
\* response that declares its length never exceeds it and cannot end before it.
DownloadChunk ==
    /\ pc = "chunks"
    /\ \/ \E c \in ChunkLens :
            /\ nchunks < MaxChunks
            /\ downloaded + c <= TheTotal
            /\ \/ /\ tmpFile' = {[f EXCEPT !.len = @ + c] : f \in Dest}
                  /\ downloaded' = downloaded + c
                  /\ nchunks' = nchunks + 1
                  /\ reported' = {percentage(downloaded + c, TheTotal)}
                  /\ UNCHANGED <<pc, trace, result, err, status, total>>
               \/ \* write_all or flush fails
                  /\ UNCHANGED <<tmpFile, downloaded, nchunks, reported, status, total>>
                  /\ pc' = Try(FALSE, "chunks")
                  /\ result' = "err"
                  /\ err' = Err("download", "io")
                  /\ trace' = trace
       \/ \* the stream fails
          /\ downloaded < TheTotal
          /\ UNCHANGED <<tmpFile, downloaded, nchunks, reported>>
          /\ pc' = Try(FALSE, "chunks")
          /\ result' = "err"
          /\ err' = Err("download", "io")
          /\ trace' = trace
          /\ UNCHANGED <<status, total>>
       \/ \* None: the body is complete and download_file returns Ok(())
          /\ downloaded = TheTotal
          /\ UNCHANGED <<tmpFile, trace, result, err>>
          /\ status' = {} /\ total' = {} /\ downloaded' = 0 /\ nchunks' = 0
          /\ reported' = {}
          /\ pc' = Try(TRUE, "chmod")
    /\ UNCHANGED <<run, url, guardVars, tmpExists, tmpIcon, output,
                   home_dir, homeVars, exitCode, home0>>

\* fs::metadata, set_mode(0o755), fs::set_permissions
Chmod ==
    /\ pc = "chmod"
    /\ \/ /\ Dest # {}
          /\ tmpFile' = {[f EXCEPT !.exec = TRUE] : f \in Dest}
          /\ Advance("chmod", TRUE, "extract", NoErr)
       \/ /\ tmpFile' = tmpFile
          /\ Advance("chmod", FALSE, "extract", Err("chmod", "io"))
    /\ UNCHANGED <<url, guardVars, tmpExists, tmpIcon, dlVars, output, home_dir,
                   homeVars>>

\* Command::new(appimage_path).arg("--appimage-extract").output(), and the
\* check of output.status
Extract ==
    /\ pc = "extract"
    /\ \/ \* the subprocess cannot be spawned
          /\ Advance("extract", FALSE, "home", Err("extract", "spawn"))
          /\ UNCHANGED <<tmpIcon, output>>
       \/ \E o \in Outputs, icon \in BOOLEAN :
            /\ DestExec
            /\ output' = {o}
            /\ tmpIcon' = (tmpIcon \/ icon)
            /\ IF status_success(o.status)
               THEN Advance("extract", TRUE, "home", NoErr)
               ELSE Advance("extract", FALSE, "home",
                            [Err("extract", "exit_code") EXCEPT
                               !.msg = <<"AppImage extraction failed: ">>
                                          \o from_utf8_lossy(o.stderr)])
    /\ UNCHANGED <<url, guardVars, tmpExists, tmpFile, dlVars, home_dir, homeVars>>

\* std::env::var("HOME")?
HomeLookup ==
    /\ pc = "home"
    /\ \/ /\ home_dir' = {"$HOME"}
          /\ Advance("home", TRUE, "mkdest", NoErr)
       \/ /\ home_dir' = {}
          /\ Advance("home", FALSE, "mkdest", Err("home", "home_unset"))
    /\ UNCHANGED <<url, guardVars, tmpVars, dlVars, output, homeVars>>

\* fs::create_dir_all(&dest_dir).await?
CreateDestDir ==
    /\ pc = "mkdest"
    /\ \/ /\ installExists' = TRUE
          /\ Advance("mkdest", TRUE, "back_file", NoErr)
       \/ /\ installExists' = installExists
          /\ Advance("mkdest", FALSE, "back_file", Err("mkdest", "io"))
    /\ UNCHANGED <<url, guardVars, tmpVars, dlVars, output, home_dir, dir, back,
                   launcherDir, desktop>>

\* the entries back_file renames: not a directory, extension AppImage or png
Matching(d) ==
    { n \in DOMAIN d :
        /\ d[n].kind = "file"
        /\ \E e \in extension(n) : is_backup_extension(e) }

\* fs::rename(&path, &dest_path): rename(2) replaces an existing file and fails
\* on an existing directory
rename_can_replace(e) == e.kind # "dir"
rename_keeping_old(old, new) == IF old.kind = "absent" THEN new ELSE old
rename_result(old, new) == new

\* back_file(dest_dir.clone()).await?  read_dir yields the entries in no
\* particular order, so a failing call has renamed any subset of them.
BackFile ==
    /\ pc = "back_file"
    /\ \/ \* create_dir_all(back) fails: back exists as a file
          /\ dir[BackName].kind = "file" \/ ~installExists
          /\ UNCHANGED <<dir, back>>
          /\ Advance("back_file", FALSE, "copy_icon", Err("back_file", "not_dir"))
       \/ \* create_dir_all(back) or read_dir fails
          /\ UNCHANGED <<dir, back>>
          /\ Advance("back_file", FALSE, "copy_icon", Err("back_file", "io"))
       \/ /\ dir[BackName].kind # "file"
          /\ installExists
          /\ \E moved \in SUBSET Matching(dir) :
               /\ \A n \in moved : rename_can_replace(back[backup_file_name(n)])
               /\ dir' = [n \in DOMAIN dir |->
                            IF n = BackName THEN DirEnt
                            ELSE IF n \in moved THEN Absent
                            ELSE dir[n]]
               /\ back' = [k \in DOMAIN back |->
                             IF \E n \in moved : backup_file_name(n) = k
                             THEN rename_result(back[k],
                                    dir[CHOOSE n \in moved : backup_file_name(n) = k])
                             ELSE back[k]]
               /\ \/ /\ moved = Matching(dir)
                     /\ Advance("back_file", TRUE, "copy_icon", NoErr)
                  \/ \* a rename onto a directory fails
                     /\ \E n \in Matching(dir) \ moved :
                            ~rename_can_replace(back[backup_file_name(n)])
                     /\ Advance("back_file", FALSE, "copy_icon", Err("back_file", "rename"))
                  \/ \* next_entry or a rename fails
                     /\ Advance("back_file", FALSE, "copy_icon", Err("back_file", "io"))
    /\ UNCHANGED <<url, guardVars, tmpVars, dlVars, output, home_dir, installExists,
                   launcherDir, desktop>>

\* fs::copy(&icon_source_path, &icon_dest_path).await?
CopyIcon ==
    /\ pc = "copy_icon"
    /\ \/ /\ ~tmpIcon
          /\ dir' = dir
          /\ Advance("copy_icon", FALSE, "copy_appimage", Err("copy_icon", "no_icon"))
       \/ /\ tmpIcon
          /\ dir[CodePng].kind = "dir" \/ ~installExists
          /\ dir' = dir
          /\ Advance("copy_icon", FALSE, "copy_appimage", Err("copy_icon", "is_dir"))
       \/ /\ tmpIcon
          /\ dir[CodePng].kind # "dir"
          /\ installExists
          /\ \/ /\ dir' = [dir EXCEPT ![CodePng] = File("icon", run, TRUE)]
                /\ Advance("copy_icon", TRUE, "copy_appimage", NoErr)
             \/ \* the copy fails after the destination was created
                /\ dir' = [dir EXCEPT ![CodePng] = File("icon", run, FALSE)]
                /\ Advance("copy_icon", FALSE, "copy_appimage", Err("copy_icon", "io"))
             \/ /\ dir' = dir
                /\ Advance("copy_icon", FALSE, "copy_appimage", Err("copy_icon", "io"))
    /\ UNCHANGED <<url, guardVars, tmpVars, dlVars, output, home_dir, installExists,
                   back, launcherDir, desktop>>

\* fs::copy(appimage_path, &appimage_dest_path).await?
CopyAppImage ==
    /\ pc = "copy_appimage"
    /\ \/ /\ \/ file_name \notin DOMAIN dir
             \/ Dest = {}
             \/ ~installExists
          /\ dir' = dir
          /\ Advance("copy_appimage", FALSE, "desktop", Err("copy_appimage", "not_found"))
       \/ /\ file_name \in DOMAIN dir
          /\ dir[file_name].kind = "dir"
          /\ dir' = dir
          /\ Advance("copy_appimage", FALSE, "desktop", Err("copy_appimage", "is_dir"))
       \/ /\ file_name \in DOMAIN dir
          /\ Dest # {}
          /\ installExists
          /\ dir[file_name].kind # "dir"
          /\ \/ /\ dir' = [dir EXCEPT ![file_name] = File("artifact", run, TRUE)]
                /\ Advance("copy_appimage", TRUE, "desktop", NoErr)
             \/ \* the copy fails after the destination was created
                /\ dir' = [dir EXCEPT ![file_name] = File("artifact", run, FALSE)]
                /\ Advance("copy_appimage", FALSE, "desktop", Err("copy_appimage", "io"))
             \/ /\ dir' = dir
                /\ Advance("copy_appimage", FALSE, "desktop", Err("copy_appimage", "io"))
    /\ UNCHANGED <<url, guardVars, tmpVars, dlVars, output, home_dir, installExists,
                   back, launcherDir, desktop>>

\* the descriptor's Exec= and Icon= lines
desktop_contents(appimage_path, icon_path) ==
    [kind |-> "written", Exec |-> appimage_path, Icon |-> icon_path]

\* echo_2_desktop(&appimage_dest_path, &icon_dest_path).await?
EchoToDesktop ==
    /\ pc = "desktop"
    /\ \/ /\ home_dir = {}
          /\ desktop' = desktop
          /\ Advance("desktop", FALSE, "finish", Err("desktop", "home_unset"))
       \/ \* fs::write does not create the parent directory
          /\ home_dir # {}
          /\ ~launcherDir
          /\ desktop' = desktop
          /\ Advance("desktop", FALSE, "finish", Err("desktop", "no_parent"))
       \/ /\ home_dir # {}
          /\ launcherDir
          /\ \/ /\ desktop' = desktop_contents(appimage_dest_path(file_name), icon_dest_path)
                /\ Advance("desktop", TRUE, "finish", NoErr)
             \* the write fails after the file was created or truncated
             \/ /\ desktop' = EmptyDesktop
                /\ Advance("desktop", FALSE, "finish", Err("desktop", "io"))
             \/ /\ desktop' = desktop
                /\ Advance("desktop", FALSE, "finish", Err("desktop", "io"))
    /\ UNCHANGED <<url, guardVars, tmpVars, dlVars, output, home_dir, installExists,
                   dir, back, launcherDir>>

\* install() and run() return Ok(())
Finish ==
    /\ pc = "finish"
    /\ pc' = "return"
    /\ result' = "ok"
    /\ UNCHANGED <<run, url, guardVars, tmpVars, dlVars, output, home_dir, homeVars,
                   err, exitCode, trace, home0>>

\* run()'s scope ends without dropping the guard
ScopeExit_leak ==
    /\ pc = "return"
    /\ pc' = "main"
    /\ url' = {} /\ output' = {} /\ home_dir' = {}
    /\ status' = {} /\ total' = {} /\ downloaded' = 0 /\ nchunks' = 0 /\ reported' = {}
    /\ UNCHANGED <<run, guardVars, tmpVars, homeVars, result, err, exitCode, trace, home0>>

\* run()'s scope ends: TmpDir::drop when the guard exists, then the result
\* reaches main
ScopeExit ==
    /\ pc = "return"
    /\ pc' = "main"
    /\ \/ /\ ~guard
          /\ UNCHANGED <<guardVars, tmpVars>>
       \/ \* remove_dir_all succeeds, or finds nothing to remove
          /\ guard
          /\ guard' = FALSE /\ dropped' = TRUE /\ rmFailed' = FALSE
          /\ tmpExists' = FALSE /\ tmpFile' = {} /\ tmpIcon' = FALSE
       \/ \* remove_dir_all fails: `let _ =` discards the error
          /\ guard
          /\ tmpExists
          /\ guard' = FALSE /\ dropped' = TRUE /\ rmFailed' = TRUE
          /\ UNCHANGED tmpVars
    /\ url' = {} /\ output' = {} /\ home_dir' = {}
    /\ status' = {} /\ total' = {} /\ downloaded' = 0 /\ nchunks' = 0 /\ reported' = {}
    /\ UNCHANGED <<run, homeVars, result, err, exitCode, trace, home0>>

\* main: Err(e) => process::exit(1), otherwise Ok(()) and status 0
exit_status(r) == IF r = "err" THEN {1} ELSE {0}

MainExit ==
    /\ pc = "main"
    /\ pc' = "exited"
    /\ exitCode' = exit_status(result)
    /\ UNCHANGED <<run, url, guardVars, tmpVars, dlVars, output, home_dir, homeVars,
                   result, err, trace, home0>>

\* the user starts the program again on the same machine
NextRun ==
    /\ pc = "exited"
    /\ run < MaxRuns
    /\ run' = run + 1
    /\ pc' = "start"
    /\ guard' = FALSE /\ dropped' = FALSE /\ rmFailed' = FALSE
    /\ result' = "none" /\ err' = NoErr /\ exitCode' = {}
    /\ trace' = <<>>
    /\ home0' = Home
    /\ UNCHANGED <<url, dlVars, output, home_dir, tmpVars, homeVars>>

Next ==
    \/ FetchMetadata
    \/ CreateTmpDir
    \/ DownloadStart
    \/ DownloadChunk
    \/ Chmod
    \/ Extract
    \/ HomeLookup
    \/ CreateDestDir
    \/ BackFile
    \/ CopyIcon
    \/ CopyAppImage
    \/ EchoToDesktop
    \/ Finish
    \/ ScopeExit
    \/ MainExit
    \/ NextRun

Spec == Init /\ [][Next]_vars

\* ------------------------------------------------- back_file on any directory
\* back_file is public; install calls it on a directory the user also owns.
\* The state is install's at its call of back_file (line 122), the install
\* directory holding any mix of files and directories, back/ any earlier backups.
UserFile == File("user", 0, TRUE)
OldBackup == File("backup", 0, TRUE)

InitBack ==
    /\ pc = "back_file"
    /\ run = 1
    /\ url = {Prefix \o App1}
    /\ guard = TRUE /\ dropped = FALSE /\ rmFailed = FALSE
    /\ tmpExists = TRUE
    /\ tmpFile = {[name |-> App1, len |-> 1, exec |-> TRUE]}
    /\ tmpIcon = TRUE
    /\ status = {} /\ total = {} /\ downloaded = 0 /\ nchunks = 0 /\ reported = {}
    /\ output = {[status |-> 0, stderr |-> <<>>]}
    /\ home_dir = {"$HOME"}
    /\ installExists = TRUE
    /\ dir \in [FileNames -> {Absent, DirEnt, UserFile}]
    /\ dir[Notes] # DirEnt /\ dir[NoExt] # DirEnt /\ dir[App2] # DirEnt
    /\ back \in [BakNames -> {Absent, DirEnt, OldBackup}]
    /\ \A k \in BakNames \ {backup_file_name(CodePng), backup_file_name(App1)} :
            back[k] = Absent
    /\ (dir[BackName] # DirEnt) => (\A k \in BakNames : back[k] = Absent)
    /\ launcherDir = TRUE
    /\ desktop = NoDesktop
    /\ result = "none" /\ err = NoErr /\ exitCode = {}
    /\ trace = SubSeq(PipelineSteps, 1, 7)
    /\ home0 = [installExists |-> TRUE, dir |-> dir, back |-> back, desktop |-> NoDesktop]

NextBack == BackFile

SpecBack == InitBack /\ [][NextBack]_vars

\* ------------------------------------------------------------------ claims
\* a name with a non-empty stem, a dot and the extension e
EndsWith(n, e) == Len(n) >= 3 /\ n[Len(n)] = e /\ n[Len(n) - 1] = "."
Backed(n) == EndsWith(n, "AppImage") \/ EndsWith(n, "png")
BakOf(n) == n \o <<".", "bak">>
IsFile(e) == e.kind = "file"
\* the path names an existing regular file of the install directory
NamesFileIn(p, d) ==
    /\ Len(p) = 4
    /\ <<p[1], p[2], p[3]>> = <<"$HOME", "Applications", "cursor">>
    /\ p[4] \in DOMAIN d
    /\ IsFile(d[p[4]])
InInstallDir(p) == installExists /\ NamesFileIn(p, dir)
Artifacts == {n \in DOMAIN dir : IsFile(dir[n]) /\ dir[n].role = "artifact"}
Icons == {n \in DOMAIN dir : IsFile(dir[n]) /\ dir[n].role = "icon"}
\* failures of the environment that the end-to-end scenario rules out
EnvFaults ==
    {"network", "decode", "io", "status", "no_length", "spawn", "exit_code",
     "home_unset", "no_icon"}

\* C1: in a fresh environment (empty home: no Applications/, no
\* .local/share/applications/), with the metadata naming cursor-1.2.3.AppImage,
\* a 1000-byte download and an extraction that exits 0 and produces code.png,
\* run() succeeds, the artifact and the icon are installed, back/ is empty, the
\* descriptor names both, and the process exits with status 0.
C1_FreshInstallSucceeds ==
    ( /\ pc = "return"
      /\ run = 1
      /\ ~home0.installExists /\ ~launcherDir
      /\ url = {Prefix \o App1}
      /\ DestLen = {1000}
      /\ tmpIcon
      /\ \A o \in output : o.status = 0
      /\ err.cause \notin EnvFaults )
    => /\ result = "ok"
       /\ exit_status(result) = {0}
       /\ IsFile(dir[App1]) /\ IsFile(dir[CodePng])
       /\ \A k \in DOMAIN back : back[k] = Absent
       /\ desktop.kind = "written"
       /\ desktop.Exec = <<"$HOME", "Applications", "cursor", App1>>
       /\ desktop.Icon = <<"$HOME", "Applications", "cursor", CodePng>>

\* C2: once the scratch-directory guard exists, whatever step ends the run, the
\* guard is dropped (the scratch directory removed, unless the removal itself
\* fails) before main exits, and the removal's outcome never changes the run's
\* result or exit status.
C2_ScratchRemovedBeforeExit ==
    (pc \in {"main", "exited"} /\ Len(trace) >= 2)
    => /\ dropped
       /\ ~rmFailed => (~tmpExists /\ tmpFile = {} /\ ~tmpIcon)
       /\ (result = "ok") <=> (trace = PipelineSteps /\ err = NoErr)
       /\ (result = "err") <=> (err # NoErr)
       /\ pc = "exited" => exitCode = (IF err = NoErr THEN {0} ELSE {1})

C2_Witness ==
    /\ pc = "exited" /\ exitCode = {1}
    /\ err.step = "extract"
    /\ dropped /\ ~tmpExists

\* C3: after any sequence of runs the install directory holds at most one file
\* copied there as an artifact and at most one icon, and no file installed by an
\* earlier run is still there once a later run has written a copy.
C3_AtMostOneArtifact ==
    /\ Cardinality(Artifacts) <= 1
    /\ Cardinality(Icons) <= 1
    /\ (\E n \in Artifacts \cup Icons : dir[n].gen = run)
       => (\A n \in Artifacts \cup Icons : dir[n].gen = run)

\* C4: when the extraction subprocess exits non-zero, install returns an error
\* whose message carries the captured stderr text (decoded lossily), and the run
\* writes nothing under the home directory, up to its exit.
C4_ExtractionFailureWritesNothing ==
    /\ \A o \in output :
         o.status # 0
         => /\ pc = "return" /\ result = "err"
            /\ err.step = "extract"
            /\ Len(err.msg) = 1 + Len(o.stderr)
            /\ err.msg[1] = "AppImage extraction failed: "
            /\ \A i \in 1..Len(o.stderr) :
                 err.msg[i + 1] = (IF o.stderr[i] = "xFF" THEN "U+FFFD" ELSE o.stderr[i])
            /\ Home = home0
    /\ (err.step = "extract" /\ err.cause = "exit_code")
       => (Home = home0 /\ trace = SubSeq(PipelineSteps, 1, 5))

C4_Witness ==
    /\ pc = "exited" /\ exitCode = {1}
    /\ err.msg = <<"AppImage extraction failed: ", "squashfs", "error">>
    /\ Home = home0 /\ ~installExists

\* C5: a successful backup step moves every direct regular file whose extension
\* is exactly AppImage or png to back/<name>.bak, with its content, and leaves
\* every other existing entry (directories, other extensions) as it was.
C5_BackupMovesMatchingFiles ==
    [][ (pc = "back_file" /\ pc' = "copy_icon")
        => \A n \in DOMAIN dir :
             IF IsFile(dir[n]) /\ Backed(n)
             THEN back'[BakOf(n)] = dir[n] /\ dir'[n] = Absent
             ELSE dir[n] # Absent => dir'[n] = dir[n] ]_vars

C5_Witness ==
    /\ pc = "copy_icon"
    /\ IsFile(home0.dir[App1]) /\ IsFile(home0.dir[CodePng])
    /\ IsFile(home0.dir[Notes]) /\ IsFile(home0.dir[DotPng])
    /\ home0.dir[BackName] = DirEnt
    /\ back[BakOf(App1)] = home0.dir[App1] /\ dir[App1] = Absent
    /\ back[BakOf(CodePng)] = home0.dir[CodePng] /\ dir[CodePng] = Absent
    /\ dir[Notes] = home0.dir[Notes] /\ dir[DotPng] = home0.dir[DotPng]

\* C6: a failing step ends the pipeline at once: no later step starts, none is
\* retried, what earlier steps did to the home tree stays as it is, and the
\* process exits with 1; it exits with 0 only when all eleven steps succeeded.
C6_FailurePropagates ==
    [][ /\ (result = "err" /\ pc' # "start")
           => (trace' = trace /\ Home' = Home /\ result' = "err" /\ err' = err)
        /\ (result # "err" /\ result' = "err")
           => (pc' = "return" /\ err' # NoErr /\ err'.step = trace'[Len(trace')])
        /\ trace' = SubSeq(PipelineSteps, 1, Len(trace'))
        /\ pc' = "exited"
           => /\ exitCode' \in {{0}, {1}}
              /\ exitCode' = {0} <=> (trace' = PipelineSteps /\ err' = NoErr)
              /\ exitCode' = {1} <=> result' = "err" ]_vars

C6_Witness ==
    /\ pc = "exited" /\ exitCode = {1}
    /\ err.step = "copy_icon"
    /\ IsFile(home0.dir[App1]) /\ dir[App1] = Absent
    /\ back[BakOf(App1)] = home0.dir[App1]

\* C7: for every declared size N, 0 included, and chunks summing to N, when
\* download_file returns Ok the file holds N bytes and the last percentage
\* reported is 100.00.
C7_FinalPercentageIs100 ==
    [][ (pc = "chunks" /\ pc' = "chmod" /\ total = {downloaded})
        => /\ DestLen = total
           /\ reported = {[class |-> "finite", hundredths |-> 10000]} ]_vars

\* C8: a response with a non-success status, or without a content length, makes
\* download_file return an error (with the status in the first case) and leaves
\* the destination path as it was.
C8_BadResponseLeavesDestination ==
    [][ ( /\ pc = "download"
          /\ status' # {}
          /\ (\E s \in status' : s < 200 \/ s > 299) \/ total' = {} )
        => /\ pc' = "return" /\ result' = "err"
           /\ err'.step = "download"
           /\ (\E s \in status' : s < 200 \/ s > 299) => err'.status = status'
           /\ tmpFile' = tmpFile ]_vars

C8_Witness ==
    /\ pc = "return"
    /\ err.step = "download" /\ err.cause = "status" /\ err.status = {404}
    /\ DestLen = {1000}

\* the files the backup step meets whose backup name is taken by an earlier file
Colliding == {n \in DOMAIN dir : IsFile(dir[n]) /\ Backed(n) /\ IsFile(back[BakOf(n)])}

\* C9 as stated: meeting a file whose back/<name>.bak is occupied, the backup
\* step fails and the earlier backup is not overwritten.
C9_CollisionFails ==
    [][ (pc = "back_file" /\ Colliding # {})
        => /\ pc' = "return" /\ err'.step = "back_file"
           /\ \A n \in Colliding : back'[BakOf(n)] = back[BakOf(n)] ]_vars

\* C9 amended: the rename replaces an earlier backup file: whenever the step
\* moves such a file, back/<name>.bak then holds the newer file, and an
\* occupied backup name that is a file is never the reason the step fails.
C9_CollisionOverwrites ==
    [][ (pc = "back_file" /\ Colliding # {})
        => /\ \A n \in Colliding : dir'[n] = Absent => back'[BakOf(n)] = dir[n]
           /\ pc' = "copy_icon" => \A n \in Colliding : dir'[n] = Absent
           /\ (pc' = "return" /\ err'.cause = "rename")
              => \E n \in DOMAIN dir :
                    IsFile(dir[n]) /\ Backed(n) /\ back[BakOf(n)] = DirEnt ]_vars

C9_Witness ==
    /\ pc = "copy_icon"
    /\ IsFile(home0.dir[CodePng]) /\ home0.back[BakOf(CodePng)] = OldBackup
    /\ back[BakOf(CodePng)] = home0.dir[CodePng]
    /\ dir[CodePng] = Absent

\* C10 as stated: after any run, a descriptor that exists names an executable
\* and an icon that exist in the install directory.
C10_DescriptorNamesExistingFiles ==
    (pc = "exited" /\ desktop.kind = "written")
    => (InInstallDir(desktop.Exec) /\ InInstallDir(desktop.Icon))

\* C10 amended: after a run that succeeds, the descriptor exists and names an
\* executable and an icon that exist in the install directory; and within a run
\* the descriptor is written only after that run's icon and artifact copies.
C10_DescriptorAfterSuccess ==
    [][ /\ (pc' = "exited" /\ exitCode' = {0})
           => /\ desktop'.kind = "written"
              /\ installExists'
              /\ NamesFileIn(desktop'.Exec, dir') /\ NamesFileIn(desktop'.Icon, dir')
        /\ desktop' # desktop
           => /\ pc = "desktop"
              /\ IsFile(dir[CodePng]) /\ dir[CodePng].gen = run /\ dir[CodePng].whole
              /\ dir[file_name] = File("artifact", run, TRUE)
              /\ desktop'.kind = "written"
                 => /\ desktop'.Exec = <<"$HOME", "Applications", "cursor", file_name>>
                    /\ desktop'.Icon = <<"$HOME", "Applications", "cursor", CodePng>> ]_vars

C10_Witness ==
    /\ pc = "exited" /\ exitCode = {0} /\ run = 2
    /\ desktop.Exec = <<"$HOME", "Applications", "cursor", App2>>
    /\ IsFile(dir[App2]) /\ IsFile(dir[CodePng])
    /\ IsFile(back[BakOf(App1)])

====
